---------------------------- MODULE Spec2Model ----------------------------
(***************************************************************************)
(* Model of the decision / gating pipeline of the e-mail agent:            *)
(*   src/src/rule_engine.py    RuleEngine.evaluate                         *)
(*   src/src/safety_layer.py   SafetyLayer (confidence gate, rate limiter, *)
(*                             safety gate, persisted state)               *)
(*   src/src/main.py           main (the per-email action resolver)        *)
(*   src/src/gmail_client.py   the outcomes of the mail transport calls    *)
(*   src/src/audit.py          AuditLogger.log_event                       *)
(*                                                                         *)
(* Confidence scores are modelled in hundredths (0.85 is 85); time is      *)
(* counted in ticks, TicksPerHour of them to the hour of the rate window.  *)
(***************************************************************************)
EXTENDS Integers, Sequences, FiniteSets, TLC

VARIABLES
    unread,            \* number of unread messages in the inbox when main starts
    config,            \* SafetyConfig the SafetyLayer was constructed with
    rules,             \* RuleEngine.rules
    dry_run,           \* args.dry_run
    now,               \* the wall clock, datetime.now()
    state,             \* SafetyLayer.state (in memory)
    file,              \* safety_state.json (durable)
    pc,                \* position of main(), or "api" for the component harness
    email_idx,         \* number of emails of the batch whose loop body has completed
    analysis,          \* the classification of the current email
    rule_actions,      \* rule_engine.evaluate(analysis)
    matched,           \* names evaluate logged as "Rule Matched", in order
    act_idx,           \* index of the next candidate action in rule_actions
    executed_actions,  \* executed_actions of the current email
    safe_mode,         \* result of the last validate_action in main
    call,              \* the last SafetyLayer call: arguments and results, and for
                       \* check_rate_limit the time and the log it was called on
    calls,             \* mail transport calls made for the current email, each
                       \* with the validate_action call that let it through
    sends,             \* times, within the last hour, of the replies sent (mode send)
    audit,             \* the log_event calls made since the current email
                       \* was taken up: the entries handed to the audit log
    twin               \* comparison harness: one batch resolved under --dry-run
                       \* and live, with the executed_actions of each email

vars == <<twin, unread, config, rules, dry_run, now, state, file, pc, email_idx,
          analysis, rule_actions, matched, act_idx, executed_actions, safe_mode,
          call, calls, sends, audit>>

-----------------------------------------------------------------------------
(* Bounds of the model *)

MaxTime == 2          \* the clock runs from 0 to MaxTime
MaxEmails == 1        \* unread emails of a run
MaxBatch == 2         \* unread emails of a run of the batch specification
MaxLimit == 2         \* largest max_emails_per_hour configured
MaxLog == 2           \* component harness: longest send log record_action extends

(* Program constants *)

TicksPerHour == 2     \* timedelta(hours=1), in ticks
FetchLimit == 10      \* fetch_unread_emails(limit=10)

-----------------------------------------------------------------------------
(* Small helpers *)

Min2(a, b) == IF a <= b THEN a ELSE b

-----------------------------------------------------------------------------
(* Data: classifications, rules, configuration *)

Intents == {"Meeting", "Newsletter", "Other"}
Priorities == {"High", "Low"}
Confidences == {55, 60, 70, 85, 95}
MainConfidences == {55, 70, 85}
Responses == {"", "Sure"}

\* The AI output (gemini_agent.analyze_email); the fallback response is
\* intent Other, priority Low, confidence 0, empty suggested response.
Analyses ==
    [intent : Intents, priority : Priorities,
     confidence_score : Confidences, suggested_response : Responses]
\* The classifications the batch of main() is drawn from.
MainAnalyses ==
    { an \in Analyses :
        /\ an.confidence_score \in MainConfidences
        /\ an.priority = "High" => an.intent = "Meeting" }

\* ActionConfig: type, value, template (None when absent).
Act(t, v) == [type |-> t, value |-> v, template |-> "None"]

\* RuleConfig objects, as ConfigManager hands them to main().
ModelRule(n, c, a) == [kind |-> "model", name |-> n, condition |-> c, actions |-> a]
\* Plain dict rules, as the tests hand them to RuleEngine.
DictRule(n, c, a) == [kind |-> "dict", name |-> n, condition |-> c, actions |-> a]

\* SafetyConfig objects: the thresholds as shipped (0.85 / 0.60) and
\* swapped (the relation between the two is not validated), rate limiting
\* on or off, max_emails_per_hour from 1 to MaxLimit.
AllSafetyConfigs ==
    { [min_confidence_for_auto_action |-> th[1],
       min_confidence_for_draft |-> th[2],
       rate_limit |-> [enabled |-> en, max_emails_per_hour |-> lim],
       human_in_the_loop_label |-> "AI_REVIEW_NEEDED"] :
         th \in {<<85, 60>>, <<60, 85>>},
         en \in BOOLEAN,
         lim \in 1..MaxLimit }
\* max_emails_per_hour is not read when rate limiting is off: one value then.
SafetyConfigs ==
    { c \in AllSafetyConfigs :
        c.rate_limit.enabled \/ c.rate_limit.max_emails_per_hour = MaxLimit }


-----------------------------------------------------------------------------
(* Persisted rate-limit state: safety_state.json *)

\* datetime.isoformat(): a timestamp as the string stored in the log.
isoformat(t) == [iso |-> t]
\* datetime.fromisoformat() is defined on such strings only.
IsIsoFormat(s) == "iso" \in DOMAIN s
fromisoformat(s) == s.iso

EmptyState == [sent_log |-> <<>>]

\* The file after json.dump(self.state, f) went through.
json_dump(st) == [kind |-> "json", data |-> st]
\* json.load(f) of a readable file.
json_load(f) == f.data

\* SafetyLayer._load_state: a missing file, or one json.load fails on,
\* gives an empty log.
load_state(f) ==
    IF f.kind = "json" THEN json_load(f) ELSE EmptyState

\* SafetyLayer._save_state: rewrites the whole file; a failure (open
\* raising) is logged and swallowed, and leaves the old file.
SaveOutcomes == {"written", "failed"}
save_state(st, f, outcome) ==
    IF outcome = "written" THEN json_dump(st) ELSE f
\* What became of the write of a call: "none" when _save_state was not called.
SaveResults(saved) == IF saved THEN SaveOutcomes ELSE {"none"}
\* The files a call can leave: those of _save_state when it was called.
FilesAfter(saved, st, f) ==
    IF saved THEN { save_state(st, f, o) : o \in SaveOutcomes } ELSE {f}

-----------------------------------------------------------------------------
(* SafetyLayer *)

BoolStr(b) == IF b THEN "true" ELSE "false"

\* Variant of check_rate_limit: the limit compared with > instead of >=.
check_rate_limit_off_by_one(cfg, st, t) ==
    IF ~cfg.rate_limit.enabled
    THEN [ret |-> TRUE, state |-> st, saved |-> FALSE, raised |-> FALSE]
    ELSE LET valid_logs == SelectSeq(st.sent_log,
                               LAMBDA ts : fromisoformat(ts) > t - TicksPerHour)
         IN  [ret |-> ~(Len(valid_logs) > cfg.rate_limit.max_emails_per_hour),
              state |-> [st EXCEPT !.sent_log = valid_logs],
              saved |-> TRUE, raised |-> FALSE]

\* Variant of check_rate_limit: an allowed check takes the slot itself.
check_rate_limit_consuming(cfg, st, t) ==
    IF ~cfg.rate_limit.enabled
    THEN [ret |-> TRUE, state |-> st, saved |-> FALSE, raised |-> FALSE]
    ELSE LET valid_logs == SelectSeq(st.sent_log,
                               LAMBDA ts : fromisoformat(ts) > t - TicksPerHour)
             ok == ~(Len(valid_logs) >= cfg.rate_limit.max_emails_per_hour)
         IN  [ret |-> ok,
              state |-> [st EXCEPT !.sent_log =
                            IF ok THEN Append(valid_logs, isoformat(t))
                            ELSE valid_logs],
              saved |-> TRUE, raised |-> FALSE]

\* Variant of check_rate_limit: a timestamp exactly one hour old is kept.
check_rate_limit_closed_window(cfg, st, t) ==
    IF ~cfg.rate_limit.enabled
    THEN [ret |-> TRUE, state |-> st, saved |-> FALSE, raised |-> FALSE]
    ELSE LET valid_logs == SelectSeq(st.sent_log,
                               LAMBDA ts : fromisoformat(ts) >= t - TicksPerHour)
         IN  [ret |-> ~(Len(valid_logs) >= cfg.rate_limit.max_emails_per_hour),
              state |-> [st EXCEPT !.sent_log = valid_logs],
              saved |-> TRUE, raised |-> FALSE]

\* Variant of check_rate_limit: the recent timestamps are counted, but the
\* log is neither pruned nor saved.
check_rate_limit_count_only(cfg, st, t) ==
    IF ~cfg.rate_limit.enabled
    THEN [ret |-> TRUE, state |-> st, saved |-> FALSE, raised |-> FALSE]
    ELSE LET valid_logs == SelectSeq(st.sent_log,
                               LAMBDA ts : fromisoformat(ts) > t - TicksPerHour)
         IN  [ret |-> ~(Len(valid_logs) >= cfg.rate_limit.max_emails_per_hour),
              state |-> st, saved |-> FALSE, raised |-> FALSE]

\* SafetyLayer.check_rate_limit at time t.  Result: ret (the returned
\* boolean), state (self.state afterwards), saved (whether _save_state was
\* called), raised (fromisoformat raised on an entry).
check_rate_limit(cfg, st, t) ==
    IF ~cfg.rate_limit.enabled
    THEN [ret |-> TRUE, state |-> st, saved |-> FALSE, raised |-> FALSE]
    ELSE IF \E i \in 1..Len(st.sent_log) : ~IsIsoFormat(st.sent_log[i])
    THEN [ret |-> FALSE, state |-> st, saved |-> FALSE, raised |-> TRUE]
    ELSE LET limit == cfg.rate_limit.max_emails_per_hour
             one_hour_ago == t - TicksPerHour
             Recent(ts) == fromisoformat(ts) > one_hour_ago
             valid_logs == SelectSeq(st.sent_log, Recent)
         IN  [ret |-> ~(Len(valid_logs) >= limit),
              state |-> [st EXCEPT !.sent_log = valid_logs],
              saved |-> TRUE, raised |-> FALSE]

\* Variant of record_action: the send is not appended to the log.
record_action_forgetting(st, t) == st

\* SafetyLayer.record_action at time t (followed by _save_state).
record_action(st, t) ==
    [st EXCEPT !.sent_log = Append(@, isoformat(t))]

\* Variant of determine_execution_mode: thresholds compared with >.
determine_execution_mode_strict(cfg, confidence) ==
    IF confidence > cfg.min_confidence_for_auto_action THEN "send"
    ELSE IF confidence > cfg.min_confidence_for_draft THEN "draft"
    ELSE "manual"

\* Variant of determine_execution_mode: only 'send' and 'draft', as its
\* docstring has it.
determine_execution_mode_two_modes(cfg, confidence) ==
    IF confidence >= cfg.min_confidence_for_auto_action THEN "send"
    ELSE "draft"

\* SafetyLayer.determine_execution_mode
determine_execution_mode(cfg, confidence) ==
    IF confidence >= cfg.min_confidence_for_auto_action THEN "send"
    ELSE IF confidence >= cfg.min_confidence_for_draft THEN "draft"
    ELSE "manual"

\* Variants of validate_action.  GateResult builds the result record.
GateResult(ret, chk, rate, dem) ==
    [ret |-> ret, state |-> chk.state, saved |-> chk.saved,
     raised |-> chk.raised, rate |-> rate, dem |-> dem]
GateCheck(cfg, st, t, proposed_mode) ==
    IF proposed_mode = "send"
    THEN check_rate_limit(cfg, st, t)
    ELSE [ret |-> TRUE, state |-> st, saved |-> FALSE, raised |-> FALSE]
GateRate(chk, proposed_mode) ==
    IF proposed_mode = "send" THEN BoolStr(chk.ret) ELSE "none"

\* the result of check_rate_limit is not acted on
validate_action_ignoring_rate(cfg, st, t, proposed_mode, confidence) ==
    LET chk == GateCheck(cfg, st, t, proposed_mode)
        safe == determine_execution_mode(cfg, confidence)
    IN  GateResult(IF proposed_mode = "send" /\ safe # "send"
                   THEN safe ELSE proposed_mode,
                   chk, GateRate(chk, proposed_mode), safe)

\* every downgrade is to 'draft', as the docstring has it
validate_action_always_draft(cfg, st, t, proposed_mode, confidence) ==
    LET chk == GateCheck(cfg, st, t, proposed_mode)
        safe == determine_execution_mode(cfg, confidence)
    IN  GateResult(IF proposed_mode = "send" /\ (~chk.ret \/ safe # "send")
                   THEN "draft" ELSE proposed_mode,
                   chk, GateRate(chk, proposed_mode), safe)

\* a denied rate limit defers to a human instead of drafting
validate_action_deny_manual(cfg, st, t, proposed_mode, confidence) ==
    LET chk == GateCheck(cfg, st, t, proposed_mode)
        safe == determine_execution_mode(cfg, confidence)
    IN  GateResult(IF proposed_mode = "send" /\ ~chk.ret THEN "manual"
                   ELSE IF proposed_mode = "send" /\ safe # "send" THEN safe
                   ELSE proposed_mode,
                   chk, GateRate(chk, proposed_mode), safe)

\* the confidence is re-validated for every proposed mode
validate_action_any_mode(cfg, st, t, proposed_mode, confidence) ==
    LET chk == GateCheck(cfg, st, t, proposed_mode)
        safe == determine_execution_mode(cfg, confidence)
    IN  GateResult(IF proposed_mode = "send" /\ ~chk.ret THEN "draft"
                   ELSE IF safe # "send" THEN safe
                   ELSE proposed_mode,
                   chk, GateRate(chk, proposed_mode), safe)

\* SafetyLayer.validate_action at time t.  Result: ret (the returned mode),
\* state/saved/raised as left by check_rate_limit, rate (what
\* check_rate_limit returned, "none" when it was not called), dem (what
\* determine_execution_mode returned, "none" when it was not called).
validate_action(cfg, st, t, proposed_mode, confidence) ==
    LET chk == IF proposed_mode = "send"
               THEN check_rate_limit(cfg, st, t)
               ELSE [ret |-> TRUE, state |-> st, saved |-> FALSE, raised |-> FALSE]
        rate == IF proposed_mode = "send" /\ ~chk.raised
                THEN BoolStr(chk.ret) ELSE "none"
        safe == determine_execution_mode(cfg, confidence)
    IN  IF chk.raised
        THEN [ret |-> "raise", state |-> chk.state, saved |-> chk.saved,
              raised |-> TRUE, rate |-> rate, dem |-> "none"]
        ELSE IF proposed_mode = "send" /\ ~chk.ret
        THEN [ret |-> "draft", state |-> chk.state, saved |-> chk.saved,
              raised |-> FALSE, rate |-> rate, dem |-> "none"]
        ELSE IF proposed_mode = "send" /\ safe # "send"
        THEN [ret |-> safe, state |-> chk.state, saved |-> chk.saved,
              raised |-> FALSE, rate |-> rate, dem |-> safe]
        ELSE [ret |-> proposed_mode, state |-> chk.state, saved |-> chk.saved,
              raised |-> FALSE, rate |-> rate, dem |-> safe]

-----------------------------------------------------------------------------
(* RuleEngine *)

\* a.model_dump() of an ActionConfig: the dict of its three fields.
model_dump(a) == [type |-> a.type, value |-> a.value, template |-> a.template]

\* Variant of rule_matches: the priority of the condition is not compared.
rule_matches_intent_only(condition, an) ==
    ~("intent" \in DOMAIN condition /\ condition.intent # an.intent)

\* The "Simple Exact Match Logic" of evaluate: only the keys intent and
\* priority of the condition are looked at.
rule_matches(condition, an) ==
    /\ ~("intent" \in DOMAIN condition /\ condition.intent # an.intent)
    /\ ~("priority" \in DOMAIN condition /\ condition.priority # an.priority)

\* The actions evaluate takes from one rule (both rule shapes).
rule_action_list(rule) ==
    IF rule.kind = "model"
    THEN [i \in 1..Len(rule.actions) |-> model_dump(rule.actions[i])]
    ELSE rule.actions

\* The loop of evaluate over self.rules: a matching rule is logged and its
\* actions extend matched_actions.
RECURSIVE evaluate_from(_, _, _)
evaluate_from(rs, an, acc) ==
    IF rs = << >> THEN acc
    ELSE LET rule == Head(rs)
         IN  evaluate_from(Tail(rs), an,
                 IF rule_matches(rule.condition, an)
                 THEN [matched_actions |->
                           acc.matched_actions \o rule_action_list(rule),
                       log |-> Append(acc.log, rule.name)]
                 ELSE acc)

\* Variant of evaluate: first match wins.
RECURSIVE evaluate_first_match(_, _)
evaluate_first_match(rs, an) ==
    IF rs = << >> THEN << >>
    ELSE IF rule_matches(Head(rs).condition, an)
    THEN rule_action_list(Head(rs))
    ELSE evaluate_first_match(Tail(rs), an)

\* RuleEngine.evaluate: the list it returns, and the rule names it logs.
evaluate(rs, an) ==
    evaluate_from(rs, an, [matched_actions |-> << >>, log |-> << >>]).matched_actions
evaluate_log(rs, an) ==
    evaluate_from(rs, an, [matched_actions |-> << >>, log |-> << >>]).log

-----------------------------------------------------------------------------
(* The agent: main() *)

\* Rule lists of the configuration.  The first is the shape of the shipped
\* rules (tests/test_scenarios.py) with an auto-reply rule; the second has a
\* wildcard rule and lets one email carry two reply actions.
RulesMeeting ==
    << ModelRule("Urgent Meeting Request",
                 [intent |-> "Meeting", priority |-> "High"],
                 << Act("label", "Urgent-Meeting"), Act("draft_reply", "None") >>),
       ModelRule("Newsletter Archive",
                 [intent |-> "Newsletter"],
                 << Act("label", "Newsletters"), Act("archive", "None") >>),
       ModelRule("Meeting Auto Reply",
                 [intent |-> "Meeting"],
                 << Act("reply", "None") >>) >>

RulesReply ==
    << ModelRule("Acknowledge", << >>, << Act("reply", "None") >>),
       ModelRule("Escalate",
                 [priority |-> "High"],
                 << Act("reply", "None"), Act("archive", "None") >>) >>

RuleSets == {RulesMeeting, RulesReply}

\* The logs persisted by earlier runs that a run starts from (at time 0):
\* empty, or holding one send of the last hour or of just before it.
InitTimes == (0 - TicksPerHour)..0
InitLogs == { << >> } \cup { << t >> : t \in InitTimes }

\* Number of timestamps of the sequence ts that lie in the hour before t.
InLastHour(ts, t) ==
    Cardinality({ i \in 1..Len(ts) : ts[i] > t - TicksPerHour /\ ts[i] <= t })

InitFiles(cfg) ==
    { [kind |-> "missing", data |-> EmptyState],
      [kind |-> "unparseable", data |-> EmptyState] }
    \cup
    { json_dump([sent_log |-> [i \in 1..Len(l) |-> isoformat(l[i])]]) :
        l \in { m \in InitLogs :
                  cfg.rate_limit.enabled =>
                      InLastHour(m, 0) <= cfg.rate_limit.max_emails_per_hour } }

\* Times recorded in a well-formed log.
LogTimes(st) == [i \in 1..Len(st.sent_log) |-> fromisoformat(st.sent_log[i])]

NoCall == [fn |-> "none", proposed_mode |-> "none", confidence |-> 0,
           rate |-> "none", dem |-> "none", ret |-> "none", at |-> 0,
           pre_log |-> << >>, save |-> "none"]
NoTwin == [batch |-> << >>, dry |-> << >>, live |-> << >>,
           dry_state |-> EmptyState, live_state |-> EmptyState]
NoAnalysis == [intent |-> "Other", priority |-> "Low",
               confidence_score |-> 0, suggested_response |-> ""]

\* The state when main() has built its components (main.py lines 20-49):
\* SafetyLayer.__init__ has loaded the persisted state.
Init ==
    /\ unread \in 0..MaxEmails
    /\ twin = NoTwin
    /\ config \in SafetyConfigs
    /\ rules \in RuleSets
    /\ dry_run \in BOOLEAN
    /\ now = 0
    /\ file \in InitFiles(config)
    /\ state = load_state(file)
    /\ pc = "fetch"
    /\ email_idx = 0
    /\ analysis = NoAnalysis
    /\ rule_actions = << >>
    /\ matched = << >>
    /\ act_idx = 1
    /\ executed_actions = << >>
    /\ safe_mode = "none"
    /\ call = NoCall
    /\ calls = << >>
    /\ sends = SelectSeq(LogTimes(state), LAMBDA ts : ts > now - TicksPerHour)
    /\ audit = << >>

Running == pc \in {"fetch", "email", "action", "send", "record", "fallback", "audit"}

\* Where the loop over rule_actions goes after the action at index i.
AfterAction(acts, i) == IF i + 1 > Len(acts) THEN "fallback" ELSE "action"

\* The clock is read by check_rate_limit, send_email and record_action
\* (datetime.now());
\* a reading is any time from the last reading on.  Of the replies sent,
\* those that left the hour before t are forgotten.
ClockReadings == now..MaxTime
StillRecent(ts, t) == SelectSeq(ts, LAMBDA x : x > t - TicksPerHour)

\* gmail_client.fetch_unread_emails(limit=10): a batch, or the error it
\* re-raises, which main's "except Exception" ends the run on.
Fetch ==
    /\ pc = "fetch"
    /\ pc' \in {"email", "fatal"}
    /\ UNCHANGED <<twin, unread, config, rules, dry_run, now, state, file, email_idx, analysis,
                   rule_actions, matched, act_idx, executed_actions, safe_mode, call,
                   calls, sends, audit>>

\* Head of the loop over emails (main.py lines 57-77): the batch, the last
\* FetchLimit of the unread messages, holds another email, which is
\* classified and matched against the rules, or the batch is exhausted.
NextEmail ==
    /\ pc = "email"
    /\ \/ /\ email_idx < Min2(unread, FetchLimit)
          /\ \E an \in MainAnalyses :
               /\ analysis' = an
               /\ rule_actions' = evaluate(rules, an)
               /\ matched' = evaluate_log(rules, an)
               /\ act_idx' = 1
               /\ executed_actions' = << >>
               /\ audit' = << >>
               /\ pc' = IF rule_actions' = << >> THEN "fallback" ELSE "action"
       \/ /\ email_idx >= Min2(unread, FetchLimit)
          /\ pc' = "done"
          /\ UNCHANGED <<analysis, rule_actions, matched, act_idx,
                         executed_actions, audit>>
    /\ UNCHANGED <<twin, unread, config, rules, dry_run, now, state, file, email_idx,
                   safe_mode, call, calls, sends>>

\* Variant of action_branch: a label action goes through the reply branch.
action_branch_gates_labels(act_type) ==
    IF act_type \in {"draft_reply", "reply", "label"} THEN "reply"
    ELSE IF act_type = "archive" THEN "archive"
    ELSE "none"

\* The if / elif chain on act_type in the loop over rule_actions (main.py
\* lines 84, 116 and 126).
action_branch(act_type) ==
    IF act_type = "draft_reply" \/ act_type = "reply" THEN "reply"
    ELSE IF act_type = "label" THEN "label"
    ELSE IF act_type = "archive" THEN "archive"
    ELSE "none"

\* Variant of reply_step: an empty suggested response is sent as it is.
reply_step_empty_text_sent(safe, dry, response) ==
    IF safe # "manual"
    THEN IF dry THEN "simulate" ELSE "send_email"
    ELSE "drop"

\* Variant of reply_step: args.dry_run is not looked at.
reply_step_always_live(safe, dry, response) ==
    IF safe # "manual"
    THEN IF response = "" THEN "skip" ELSE "send_email"
    ELSE "drop"

\* Variant of reply_step: a manual result is treated like a draft.
reply_step_manual_goes_on(safe, dry, response) ==
    IF dry THEN "simulate"
    ELSE IF response = "" THEN "skip"
    ELSE "send_email"

\* What main does with the gate's result (main.py lines 90-99): drop the
\* action, record a simulated one, skip it for want of a response text, or
\* go on to gmail_client.send_email.
reply_step(safe, dry, response) ==
    IF safe # "manual"
    THEN IF dry THEN "simulate"
         ELSE IF response = "" THEN "skip"
         ELSE "send_email"
    ELSE "drop"

\* A reply / draft_reply action up to the transport call (main.py lines
\* 84-99): the safety gate, then drop (manual), simulate (dry run), skip
\* (empty suggested response) or go on to send_email.
ReplyAction ==
    /\ pc = "action"
    /\ action_branch(rule_actions[act_idx].type) = "reply"
    /\ \E t \in ClockReadings :
       LET act_type == rule_actions[act_idx].type
           mode == IF act_type = "draft_reply" THEN "draft" ELSE "send"
           confidence == analysis.confidence_score
           v == validate_action(config, state, t, mode, confidence)
       IN  /\ now' = IF v.rate = "none" THEN now ELSE t
           /\ sends' = StillRecent(sends, now')
           /\ state' = v.state
           /\ \E o \in SaveResults(v.saved) :
                /\ file' = save_state(v.state, file, o)
                /\ call' = [fn |-> "validate_action", proposed_mode |-> mode,
                            confidence |-> confidence, rate |-> v.rate,
                            dem |-> v.dem, ret |-> v.ret, at |-> 0,
                            pre_log |-> << >>, save |-> o]
           /\ safe_mode' = v.ret
           /\ LET step == reply_step(v.ret, dry_run,
                                      analysis.suggested_response)
              IN  IF v.raised
                  THEN /\ pc' = "fatal"
                       /\ UNCHANGED <<act_idx, executed_actions>>
                  ELSE IF step = "simulate"
                  THEN /\ executed_actions' =
                              Append(executed_actions, "DRY_RUN_" \o v.ret)
                       /\ act_idx' = act_idx + 1
                       /\ pc' = AfterAction(rule_actions, act_idx)
                  ELSE IF step = "send_email"
                  THEN /\ pc' = "send"
                       /\ UNCHANGED <<act_idx, executed_actions>>
                  ELSE /\ act_idx' = act_idx + 1
                       /\ pc' = AfterAction(rule_actions, act_idx)
                       /\ UNCHANGED executed_actions
    /\ UNCHANGED <<twin, unread, config, rules, dry_run, email_idx, analysis,
                   rule_actions, matched, calls, audit>>

\* Outcomes of gmail_client.send_email(mode): _smtp_send returns True or
\* False; _imap_save_draft returns True or False, or the reconnect of
\* _ensure_imap_connection raises; any other mode raises ValueError.
SendOutcomes(mode) ==
    IF mode = "send" THEN {"ok", "fail"}
    ELSE IF mode = "draft" THEN {"ok", "fail", "raise"}
    ELSE {"raise"}

\* main.py lines 101-111: the transport call of a reply.
SendEmail ==
    /\ pc = "send"
    /\ \E o \in SendOutcomes(safe_mode), t \in ClockReadings :
         /\ now' = t
         /\ calls' = Append(calls, [op |-> "send_email", arg |-> safe_mode,
                                    outcome |-> o, gate |-> call])
         /\ sends' = IF o = "ok" /\ safe_mode = "send"
                     THEN Append(StillRecent(sends, t), t)
                     ELSE StillRecent(sends, t)
         /\ IF o = "raise"
            THEN /\ pc' = "fatal"
                 /\ UNCHANGED <<act_idx, executed_actions>>
            ELSE IF o = "ok"
            THEN /\ executed_actions' = Append(executed_actions, safe_mode)
                 /\ IF safe_mode = "send"
                    THEN /\ pc' = "record"
                         /\ UNCHANGED act_idx
                    ELSE /\ act_idx' = act_idx + 1
                         /\ pc' = AfterAction(rule_actions, act_idx)
            ELSE /\ act_idx' = act_idx + 1
                 /\ pc' = AfterAction(rule_actions, act_idx)
                 /\ UNCHANGED executed_actions
    /\ UNCHANGED <<twin, unread, config, rules, dry_run, state, file, email_idx,
                   analysis, rule_actions, matched, safe_mode, call, audit>>

\* main.py lines 112-113: safety_layer.record_action() after a successful
\* send in mode "send".
RecordAction ==
    /\ pc = "record"
    /\ \E t \in ClockReadings :
         /\ now' = t
         /\ state' = record_action(state, t)
         /\ sends' = StillRecent(sends, t)
    /\ file' \in FilesAfter(TRUE, state', file)
    /\ act_idx' = act_idx + 1
    /\ pc' = AfterAction(rule_actions, act_idx)
    /\ UNCHANGED <<twin, unread, config, rules, dry_run, email_idx, analysis,
                   rule_actions, matched, executed_actions, safe_mode, call, calls,
                   audit>>

\* Outcomes of gmail_client.add_label / archive_email: done, failed with
\* the error logged and swallowed, or _ensure_imap_connection raised.
ImapOutcomes == {"ok", "fail", "raise"}

\* main.py lines 116-123: a label action.
LabelAction ==
    /\ pc = "action"
    /\ action_branch(rule_actions[act_idx].type) = "label"
    /\ LET label_val == rule_actions[act_idx].value
       IN  IF dry_run
           THEN /\ executed_actions' =
                       Append(executed_actions, "DRY_RUN_LABEL_" \o label_val)
                /\ act_idx' = act_idx + 1
                /\ pc' = AfterAction(rule_actions, act_idx)
                /\ UNCHANGED calls
           ELSE \E o \in ImapOutcomes :
                  /\ calls' = Append(calls, [op |-> "add_label", arg |-> label_val,
                                             outcome |-> o, gate |-> NoCall])
                  /\ IF o = "raise"
                     THEN /\ pc' = "fatal"
                          /\ UNCHANGED <<act_idx, executed_actions>>
                     ELSE /\ executed_actions' =
                                 Append(executed_actions, "LABEL_" \o label_val)
                          /\ act_idx' = act_idx + 1
                          /\ pc' = AfterAction(rule_actions, act_idx)
    /\ UNCHANGED <<twin, unread, config, rules, dry_run, now, state, file, email_idx,
                   analysis, rule_actions, matched, safe_mode, call, sends, audit>>

\* main.py lines 126-132: an archive action.
ArchiveAction ==
    /\ pc = "action"
    /\ action_branch(rule_actions[act_idx].type) = "archive"
    /\ IF dry_run
       THEN /\ executed_actions' = Append(executed_actions, "DRY_RUN_ARCHIVE")
            /\ act_idx' = act_idx + 1
            /\ pc' = AfterAction(rule_actions, act_idx)
            /\ UNCHANGED calls
       ELSE \E o \in ImapOutcomes :
              /\ calls' = Append(calls, [op |-> "archive_email", arg |-> "None",
                                         outcome |-> o, gate |-> NoCall])
              /\ IF o = "raise"
                 THEN /\ pc' = "fatal"
                      /\ UNCHANGED <<act_idx, executed_actions>>
                 ELSE /\ executed_actions' = Append(executed_actions, "ARCHIVE")
                      /\ act_idx' = act_idx + 1
                      /\ pc' = AfterAction(rule_actions, act_idx)
    /\ UNCHANGED <<twin, unread, config, rules, dry_run, now, state, file, email_idx,
                   analysis, rule_actions, matched, safe_mode, call, sends, audit>>

\* Variant of needs_review: whether anything was executed is not looked at.
needs_review_whatever_ran(cfg, confidence, executed) ==
    confidence < cfg.min_confidence_for_draft

\* The condition of the fallback (main.py line 135).
needs_review(cfg, confidence, executed) ==
    confidence < cfg.min_confidence_for_draft /\ executed = << >>

\* main.py lines 134-140: the human-review label for a low-confidence email
\* nothing was executed for.
Fallback ==
    /\ pc = "fallback"
    /\ IF needs_review(config, analysis.confidence_score, executed_actions)
       THEN LET review_label == config.human_in_the_loop_label
            IN  IF dry_run
                THEN /\ executed_actions' =
                            Append(executed_actions, "LABEL_" \o review_label)
                     /\ pc' = "audit"
                     /\ UNCHANGED calls
                ELSE \E o \in ImapOutcomes :
                       /\ calls' = Append(calls, [op |-> "add_label",
                                                  arg |-> review_label,
                                                  outcome |-> o, gate |-> NoCall])
                       /\ IF o = "raise"
                          THEN /\ pc' = "fatal"
                               /\ UNCHANGED executed_actions
                          ELSE /\ executed_actions' =
                                      Append(executed_actions,
                                             "LABEL_" \o review_label)
                               /\ pc' = "audit"
       ELSE /\ pc' = "audit"
            /\ UNCHANGED <<executed_actions, calls>>
    /\ UNCHANGED <<twin, unread, config, rules, dry_run, now, state, file, email_idx,
                   analysis, rule_actions, matched, act_idx, safe_mode, call, sends, audit>>

\* Variant of log_event: the entry is built but nothing is emitted.
log_event_silent(log, email_id, actions, status, written) == log

\* AuditLogger.log_event: the entry (its classification and subject left
\* out) is appended to the audit log; written tells whether the line reached
\* the file, a failed write being logged and swallowed.
log_event(log, email_id, actions, status, written) ==
    Append(log, [email_id |-> email_id, actions |-> actions,
                 status |-> status, written |-> written])

\* main.py lines 143-149: the audit record of the email, identified here by
\* its position in the fetched batch.
Audit ==
    /\ pc = "audit"
    /\ \E written \in BOOLEAN :
         audit' = log_event(audit, email_idx + 1, executed_actions,
                            "Completed", written)
    /\ email_idx' = email_idx + 1
    /\ pc' = "email"
    \* the locals of the loop body are dead until the next email assigns them
    /\ analysis' = NoAnalysis
    /\ rule_actions' = << >>
    /\ matched' = << >>
    /\ act_idx' = 1
    /\ executed_actions' = << >>
    /\ safe_mode' = "none"
    /\ call' = NoCall
    /\ calls' = << >>
    /\ UNCHANGED <<twin, unread, config, rules, dry_run, now, state, file, sends>>

\* main.py lines 151-152: KeyboardInterrupt anywhere in the batch.
Interrupt ==
    /\ Running
    /\ pc' = "stopped"
    /\ UNCHANGED <<twin, unread, config, rules, dry_run, now, state, file, email_idx,
                   analysis, rule_actions, matched, act_idx, executed_actions, safe_mode,
                   call, calls, sends, audit>>

Next ==
    \/ Fetch
    \/ NextEmail
    \/ ReplyAction
    \/ SendEmail
    \/ RecordAction
    \/ LabelAction
    \/ ArchiveAction
    \/ Fallback
    \/ Audit
    \/ Interrupt

Spec == Init /\ [][Next]_vars

\* Runs of main over batches of up to MaxBatch emails, with the shipped
\* thresholds, the rate limiter enabled and no persisted state.
InitBatch ==
    /\ unread \in 0..MaxBatch
    /\ twin = NoTwin
    /\ config \in { c \in SafetyConfigs :
                      /\ c.min_confidence_for_auto_action = 85
                      /\ c.rate_limit.enabled
                      /\ c.rate_limit.max_emails_per_hour = 1 }
    /\ rules \in RuleSets
    /\ dry_run \in BOOLEAN
    /\ now = 0
    /\ file = [kind |-> "missing", data |-> EmptyState]
    /\ state = load_state(file)
    /\ pc = "fetch"
    /\ email_idx = 0
    /\ analysis = NoAnalysis
    /\ rule_actions = << >>
    /\ matched = << >>
    /\ act_idx = 1
    /\ executed_actions = << >>
    /\ safe_mode = "none"
    /\ call = NoCall
    /\ calls = << >>
    /\ sends = << >>
    /\ audit = << >>

SpecBatch == InitBatch /\ [][Next]_vars

-----------------------------------------------------------------------------
(* The batch resolved twice: under --dry-run and live with a mail transport *)
(* whose calls all succeed, from the same configuration, rules and limiter *)
(* state.                                                                   *)

\* The resolver's progress through one email: r.state is the limiter's
\* self.state, r.executed the email's executed_actions.  The persisted log
\* is well formed here, so that validate_action does not raise.

\* Variant of resolve_action: under dry-run the proposed mode is recorded
\* without asking the gate.
resolve_action_ungated_dry(cfg, dry, an, act, r, t) ==
    LET branch == action_branch(act.type)
        mode == IF act.type = "draft_reply" THEN "draft" ELSE "send"
        v == validate_action(cfg, r.state, t, mode, an.confidence_score)
        step == reply_step(v.ret, dry, an.suggested_response)
    IN  IF branch = "reply"
        THEN IF dry
             THEN [r EXCEPT !.executed = Append(@, "DRY_RUN_" \o mode)]
             ELSE IF step = "send_email"
             THEN [state |-> IF v.ret = "send" THEN record_action(v.state, t)
                             ELSE v.state,
                   executed |-> Append(r.executed, v.ret)]
             ELSE [r EXCEPT !.state = v.state]
        ELSE IF branch = "label"
        THEN [r EXCEPT !.executed =
                 Append(@, IF dry THEN "DRY_RUN_LABEL_" \o act.value
                           ELSE "LABEL_" \o act.value)]
        ELSE IF branch = "archive"
        THEN [r EXCEPT !.executed =
                 Append(@, IF dry THEN "DRY_RUN_ARCHIVE" ELSE "ARCHIVE")]
        ELSE r

\* The body of the loop over rule_actions for the action act (main.py lines
\* 81-132), the clock reading t, every transport call succeeding: a reply
\* goes through the gate and is dropped, simulated, skipped, or sent or
\* drafted (a send being recorded with record_action); a label or an
\* archive is simulated or done.
resolve_action(cfg, dry, an, act, r, t) ==
    LET branch == action_branch(act.type)
        mode == IF act.type = "draft_reply" THEN "draft" ELSE "send"
        v == validate_action(cfg, r.state, t, mode, an.confidence_score)
        step == reply_step(v.ret, dry, an.suggested_response)
    IN  IF branch = "reply"
        THEN IF step = "simulate"
             THEN [state |-> v.state,
                   executed |-> Append(r.executed, "DRY_RUN_" \o v.ret)]
             ELSE IF step = "send_email"
             THEN [state |-> IF v.ret = "send" THEN record_action(v.state, t)
                             ELSE v.state,
                   executed |-> Append(r.executed, v.ret)]
             ELSE [r EXCEPT !.state = v.state]
        ELSE IF branch = "label"
        THEN [r EXCEPT !.executed =
                 Append(@, IF dry THEN "DRY_RUN_LABEL_" \o act.value
                           ELSE "LABEL_" \o act.value)]
        ELSE IF branch = "archive"
        THEN [r EXCEPT !.executed =
                 Append(@, IF dry THEN "DRY_RUN_ARCHIVE" ELSE "ARCHIVE")]
        ELSE r

\* The loop over rule_actions (main.py line 80), from index i on.
RECURSIVE resolve_from(_, _, _, _, _, _, _)
resolve_from(cfg, dry, an, acts, i, r, t) ==
    IF i > Len(acts) THEN r
    ELSE resolve_from(cfg, dry, an, acts, i + 1,
                      resolve_action(cfg, dry, an, acts[i], r, t), t)

\* The body of the loop over emails for a classification an (main.py lines
\* 74-140), the limiter's state being st: the rules, the loop over their
\* actions, the fallback.  Result: the limiter's state afterwards and the
\* executed_actions handed to log_event.
process_email(cfg, rs, dry, an, st, t) ==
    LET r == resolve_from(cfg, dry, an, evaluate(rs, an), 1,
                          [state |-> st, executed |-> << >>], t)
    IN  IF needs_review(cfg, an.confidence_score, r.executed)
        THEN [r EXCEPT !.executed =
                 Append(@, "LABEL_" \o cfg.human_in_the_loop_label)]
        ELSE r

\* Both runs start from the limiter state loaded from the same file, with
\* the thresholds as shipped.
TwinInit ==
    /\ config \in { c \in SafetyConfigs : c.min_confidence_for_auto_action = 85 }
    /\ rules \in RuleSets
    /\ now = 0
    /\ file \in InitFiles(config)
    /\ state = load_state(file)
    /\ twin = [batch |-> << >>, dry |-> << >>, live |-> << >>,
               dry_state |-> state, live_state |-> state]
    /\ pc = "twin"
    /\ unread = 0
    /\ dry_run = FALSE
    /\ email_idx = 0
    /\ analysis = NoAnalysis
    /\ rule_actions = << >>
    /\ matched = << >>
    /\ act_idx = 1
    /\ executed_actions = << >>
    /\ safe_mode = "none"
    /\ call = NoCall
    /\ calls = << >>
    /\ sends = << >>
    /\ audit = << >>

\* The next email of the batch, with the same classification in both runs,
\* is processed by each of them; the batch is short against the hour.
TwinEmail ==
    /\ pc = "twin"
    /\ Len(twin.batch) < MaxBatch
    /\ \E an \in MainAnalyses :
         LET d == process_email(config, rules, TRUE, an, twin.dry_state, now)
             l == process_email(config, rules, FALSE, an, twin.live_state, now)
         IN  twin' = [batch |-> Append(twin.batch, an),
                      dry |-> Append(twin.dry, d.executed),
                      live |-> Append(twin.live, l.executed),
                      dry_state |-> d.state,
                      live_state |-> l.state]
    /\ UNCHANGED <<unread, config, rules, dry_run, now, state, file, pc,
                   email_idx, analysis, rule_actions, matched, act_idx,
                   executed_actions, safe_mode, call, calls, sends, audit>>

TwinNext == TwinEmail

SpecTwin == TwinInit /\ [][TwinNext]_vars

-----------------------------------------------------------------------------
(* Component harness: the SafetyLayer called directly, as the unit tests do *)
(* (tests/test_basic.py), in any order and with the clock advancing.        *)

ProposedModes == {"send", "draft", "manual", "draft_reply"}

SafetyInit ==
    /\ unread = 0
    /\ twin = NoTwin
    /\ config \in SafetyConfigs
    /\ now = 0
    /\ file \in InitFiles(config)
    /\ state = load_state(file)
    /\ call = NoCall
    /\ pc = "safety"
    /\ rules = << >>
    /\ dry_run = FALSE
    /\ email_idx = 0
    /\ analysis = NoAnalysis
    /\ rule_actions = << >>
    /\ matched = << >>
    /\ act_idx = 1
    /\ executed_actions = << >>
    /\ safe_mode = "none"
    /\ calls = << >>
    /\ sends = << >>
    /\ audit = << >>

SafetyTick ==
    /\ pc = "safety"
    /\ now < MaxTime
    /\ now' = now + 1
    /\ UNCHANGED <<twin, unread, config, rules, dry_run, state, file, pc, email_idx, analysis,
                   rule_actions, matched, act_idx, executed_actions, safe_mode,
                   call, calls, sends, audit>>

CallCheckRateLimit ==
    /\ pc = "safety"
    /\ LET chk == check_rate_limit(config, state, now)
       IN  /\ state' = chk.state
           /\ \E o \in SaveResults(chk.saved) :
                /\ file' = save_state(chk.state, file, o)
                /\ call' = [fn |-> "check_rate_limit", proposed_mode |-> "none",
                            confidence |-> 0, rate |-> "none", dem |-> "none",
                            ret |-> IF chk.raised THEN "raise"
                                    ELSE BoolStr(chk.ret),
                            at |-> now, pre_log |-> state.sent_log,
                            save |-> o]
    /\ UNCHANGED <<twin, unread, config, rules, dry_run, now, pc, email_idx, analysis,
                   rule_actions, matched, act_idx, executed_actions, safe_mode,
                   calls, sends, audit>>

CallRecordAction ==
    /\ pc = "safety"
    /\ Len(state.sent_log) < MaxLog
    /\ state' = record_action(state, now)
    /\ \E o \in SaveResults(TRUE) :
         /\ file' = save_state(state', file, o)
         /\ call' = [fn |-> "record_action", proposed_mode |-> "none",
                     confidence |-> 0, rate |-> "none", dem |-> "none",
                     ret |-> "none", at |-> now, pre_log |-> state.sent_log,
                     save |-> o]
    /\ UNCHANGED <<twin, unread, config, rules, dry_run, now, pc, email_idx, analysis,
                   rule_actions, matched, act_idx, executed_actions, safe_mode,
                   calls, sends, audit>>

CallDetermineExecutionMode ==
    /\ pc = "safety"
    /\ \E c \in Confidences :
         call' = [fn |-> "determine_execution_mode", proposed_mode |-> "none",
                  confidence |-> c, rate |-> "none", dem |-> "none",
                  ret |-> determine_execution_mode(config, c),
                  at |-> 0, pre_log |-> << >>, save |-> "none"]
    /\ UNCHANGED <<twin, unread, config, rules, dry_run, now, state, file, pc, email_idx,
                   analysis, rule_actions, matched, act_idx, executed_actions,
                   safe_mode, calls, sends, audit>>

CallValidateAction ==
    /\ pc = "safety"
    /\ \E m \in ProposedModes, c \in Confidences :
         LET v == validate_action(config, state, now, m, c)
         IN  /\ state' = v.state
             /\ \E o \in SaveResults(v.saved) :
                  /\ file' = save_state(v.state, file, o)
                  /\ call' = [fn |-> "validate_action", proposed_mode |-> m,
                              confidence |-> c, rate |-> v.rate, dem |-> v.dem,
                              ret |-> v.ret, at |-> 0, pre_log |-> << >>,
                              save |-> o]
    /\ UNCHANGED <<twin, unread, config, rules, dry_run, now, pc, email_idx, analysis,
                   rule_actions, matched, act_idx, executed_actions, safe_mode,
                   calls, sends, audit>>

SafetyNext ==
    \/ SafetyTick
    \/ CallCheckRateLimit
    \/ CallRecordAction
    \/ CallDetermineExecutionMode
    \/ CallValidateAction

SpecSafety == SafetyInit /\ [][SafetyNext]_vars

\* The SafetyLayer constructed over a state file that cannot be read or is
\* corrupt: missing, not JSON, or JSON whose sent_log has an entry that is
\* no ISO-8601 timestamp (alone, or after a well-formed one).
NotATimestamp == [text |-> "not-a-date"]
CorruptFiles ==
    { json_dump([sent_log |-> << NotATimestamp >>]),
      json_dump([sent_log |-> << isoformat(0), NotATimestamp >>]) }
UnreadableFiles ==
    { [kind |-> "missing", data |-> EmptyState],
      [kind |-> "unparseable", data |-> EmptyState] }

CorruptInit ==
    /\ unread = 0
    /\ twin = NoTwin
    /\ config \in SafetyConfigs
    /\ now = 0
    /\ file \in UnreadableFiles \cup CorruptFiles
    /\ state = load_state(file)
    /\ call = NoCall
    /\ pc = "safety"
    /\ rules = << >>
    /\ dry_run = FALSE
    /\ email_idx = 0
    /\ analysis = NoAnalysis
    /\ rule_actions = << >>
    /\ matched = << >>
    /\ act_idx = 1
    /\ executed_actions = << >>
    /\ safe_mode = "none"
    /\ calls = << >>
    /\ sends = << >>
    /\ audit = << >>

SpecCorrupt == CorruptInit /\ [][SafetyNext]_vars

-----------------------------------------------------------------------------
(* Component harness: RuleEngine.evaluate called directly, as the scenario  *)
(* tests do (tests/test_scenarios.py).                                      *)

\* The rules of the scenario tests, as plain dicts.
ScenarioRules ==
    << DictRule("Urgent Meeting Request",
                [intent |-> "Meeting", priority |-> "High"],
                << [type |-> "label", value |-> "Urgent-Meeting"],
                   [type |-> "draft_reply",
                    template |-> "response_templates/meeting_confirm.txt"] >>),
       DictRule("Newsletter Archive",
                [intent |-> "Newsletter"],
                << [type |-> "label", value |-> "Newsletters"],
                   [type |-> "archive"] >>),
       DictRule("Spam Block",
                [intent |-> "Spam"],
                << [type |-> "label", value |-> "Potential-Spam"] >>) >>

\* Rules whose conditions overlap: several match one classification.
OverlapRules ==
    << ModelRule("Acknowledge", << >>, << Act("reply", "None") >>),
       ModelRule("Escalate", [priority |-> "High"],
                 << Act("label", "Escalated"), Act("archive", "None") >>),
       ModelRule("No Actions", [intent |-> "Other"], << >>),
       ModelRule("Meeting", [intent |-> "Meeting"],
                 << Act("draft_reply", "None") >>) >>

\* A condition (Dict[str, Any]) that names a field other than intent and
\* priority.
ExtraKeyRules ==
    << DictRule("Needs Reply",
                [priority |-> "High", suggested_response |-> ""],
                << [type |-> "label", value |-> "Needs-Reply"] >>),
       DictRule("Newsletter Archive",
                [intent |-> "Newsletter"],
                << [type |-> "archive"] >>) >>

HarnessRuleSets == {ScenarioRules, OverlapRules, ExtraKeyRules}

HarnessAnalyses ==
    [intent : Intents \cup {"Spam"}, priority : Priorities,
     confidence_score : {55, 95}, suggested_response : Responses]

RulesInit ==
    /\ unread = 0
    /\ twin = NoTwin
    /\ rules \in HarnessRuleSets \cup RuleSets
    /\ analysis = NoAnalysis
    /\ rule_actions = << >>
    /\ matched = << >>
    /\ pc = "rules"
    /\ config \in { c \in SafetyConfigs : c.min_confidence_for_auto_action = 85
                                          /\ ~c.rate_limit.enabled }
    /\ now = 0
    /\ file = [kind |-> "missing", data |-> EmptyState]
    /\ state = load_state(file)
    /\ call = NoCall
    /\ dry_run = FALSE
    /\ email_idx = 0
    /\ act_idx = 1
    /\ executed_actions = << >>
    /\ safe_mode = "none"
    /\ calls = << >>
    /\ sends = << >>
    /\ audit = << >>

CallEvaluate ==
    /\ pc = "rules"
    /\ \E an \in HarnessAnalyses :
         /\ analysis' = an
         /\ rule_actions' = evaluate(rules, an)
         /\ matched' = evaluate_log(rules, an)
    /\ UNCHANGED <<twin, unread, config, rules, dry_run, now, state, file, pc, email_idx,
                   act_idx, executed_actions, safe_mode, call, calls, sends,
                   audit>>

RulesNext == CallEvaluate

SpecRules == RulesInit /\ [][RulesNext]_vars

-----------------------------------------------------------------------------
(* Properties *)

SendCalls == { i \in 1..Len(calls) :
                 calls[i].op = "send_email" /\ calls[i].arg = "send" }

\* C1: a reply goes to the mail transport in mode 'send' only if the
\* validate_action call made for it saw the email's confidence at or above
\* min_confidence_for_auto_action and check_rate_limit() returning true.
C1_SendOnlyThroughGate ==
    \A i \in SendCalls :
        /\ calls[i].gate.fn = "validate_action"
        /\ calls[i].gate.proposed_mode = "send"
        /\ calls[i].gate.confidence = analysis.confidence_score
        /\ calls[i].gate.confidence >= config.min_confidence_for_auto_action
        /\ calls[i].gate.rate = "true"

\* C1 witness: with rate limiting on, a reply was sent in mode 'send'.
C1_Witness ==
    /\ config.rate_limit.enabled
    /\ \E i \in SendCalls : calls[i].outcome = "ok"

\* C2: with rate limiting enabled, the replies sent in mode 'send' within
\* the trailing hour never number more than max_emails_per_hour.
C2_SendsWithinLimit ==
    config.rate_limit.enabled =>
        InLastHour(sends, now) <= config.rate_limit.max_emails_per_hour

\* C2 witness: the limit is reached by a reply sent in this run, and the
\* gate has refused the next one.
C2_Witness ==
    /\ config.rate_limit.enabled
    /\ InLastHour(sends, now) = config.rate_limit.max_emails_per_hour
    /\ \E i \in SendCalls : calls[i].outcome = "ok"
    /\ call.fn = "validate_action" /\ call.rate = "false"

\* C3: determine_execution_mode(c) is 'send' for every c at or above the
\* send threshold, and 'draft' for every c at or above the draft threshold
\* and below the send threshold; a c equal to a threshold meets it, and the
\* send threshold decides first.
C3_SendAndDraftBands ==
    call.fn = "determine_execution_mode" =>
        /\ call.confidence >= config.min_confidence_for_auto_action
               => call.ret = "send"
        /\ (/\ call.confidence >= config.min_confidence_for_draft
            /\ call.confidence < config.min_confidence_for_auto_action)
               => call.ret = "draft"

\* C3 witness: a confidence equal to the draft threshold gives 'draft'.
C3_Witness ==
    /\ call.fn = "determine_execution_mode"
    /\ call.confidence = config.min_confidence_for_draft
    /\ call.ret = "draft"

\* C4 as claimed: determine_execution_mode(c) is 'manual' for every c below
\* min_confidence_for_draft, whatever the SafetyConfig.
C4_ManualBelowDraft ==
    (call.fn = "determine_execution_mode"
        /\ call.confidence < config.min_confidence_for_draft)
    => call.ret = "manual"

\* C4 amended: determine_execution_mode(c) is 'manual' for every c below
\* both thresholds, whatever the SafetyConfig (a c below the draft threshold
\* but at or above the send threshold gives 'send').
C4_ManualBelowBoth ==
    (call.fn = "determine_execution_mode"
        /\ call.confidence < config.min_confidence_for_draft
        /\ call.confidence < config.min_confidence_for_auto_action)
    => call.ret = "manual"

\* C4 witness: 'manual' under a configuration whose draft threshold is
\* above its send threshold.
C4_Witness ==
    /\ call.fn = "determine_execution_mode"
    /\ config.min_confidence_for_draft > config.min_confidence_for_auto_action
    /\ call.ret = "manual"

C6_DeniedGivesDraft ==
    (call.fn = "validate_action" /\ call.proposed_mode = "send"
        /\ call.rate = "false")
    => call.ret = "draft"

\* C6 witness: the limiter denied a 'send' proposal whose confidence is at
\* or above the send threshold.
C6_Witness ==
    /\ call.fn = "validate_action" /\ call.proposed_mode = "send"
    /\ call.rate = "false"
    /\ call.confidence >= config.min_confidence_for_auto_action
    /\ call.ret = "draft"

\* C7: validate_action(m, c) returns m for every proposed mode m other
\* than 'send', every confidence and every rate-limiter state.
C7_OtherModesPassThrough ==
    (call.fn = "validate_action" /\ call.proposed_mode # "send")
    => call.ret = call.proposed_mode

\* C7 witness: 'draft_reply' came back unchanged at a confidence below both
\* thresholds while the log held max_emails_per_hour sends of the last hour.
C7_Witness ==
    /\ call.fn = "validate_action" /\ call.proposed_mode = "draft_reply"
    /\ call.confidence < config.min_confidence_for_draft
    /\ call.confidence < config.min_confidence_for_auto_action
    /\ config.rate_limit.enabled
    /\ InLastHour(LogTimes(state), now) >= config.rate_limit.max_emails_per_hour
    /\ call.ret = "draft_reply"

\* Whether evaluate has been called in the harness.
Evaluated == pc = "rules" /\ analysis # NoAnalysis

\* The rules the log of evaluate names (rule names are distinct).
LoggedRules == { i \in 1..Len(rules) :
                   \E k \in 1..Len(matched) : matched[k] = rules[i].name }

\* Number of actions of the logged rules before rule i.
RECURSIVE ActionsBefore(_)
ActionsBefore(i) ==
    IF i <= 1 THEN 0
    ELSE ActionsBefore(i - 1)
         + (IF (i - 1) \in LoggedRules THEN Len(rules[i - 1].actions) ELSE 0)

\* C8: evaluate returns exactly the action lists of the matching rules, one
\* after the other in rule order, each in its own order.
C8_ConcatenationOfMatches ==
    Evaluated =>
        /\ Len(rule_actions) = ActionsBefore(Len(rules) + 1)
        /\ \A i \in LoggedRules : \A j \in 1..Len(rules[i].actions) :
               rule_actions[ActionsBefore(i) + j] = rules[i].actions[j]

\* C8 witness: several rules matched, one in their midst did not.
C8_Witness ==
    /\ Evaluated
    /\ \E i, j, k \in 1..Len(rules) :
         /\ i < j /\ j < k
         /\ i \in LoggedRules /\ j \notin LoggedRules /\ k \in LoggedRules
         /\ rules[i].actions # << >> /\ rules[j].actions # << >>
         /\ rules[k].actions # << >>

\* C9 as claimed: a rule matches iff every field its condition names equals
\* that field of the classification.
C9_EveryNamedFieldCompared ==
    Evaluated =>
        \A i \in 1..Len(rules) :
            i \in LoggedRules <=>
                \A f \in DOMAIN rules[i].condition :
                    rules[i].condition[f] = analysis[f]

\* C9 amended: a rule matches iff each of the fields intent and priority
\* that its condition names equals that field of the classification; any
\* other field the condition names is ignored, like the fields it does not
\* name.
C9_IntentAndPriorityCompared ==
    Evaluated =>
        \A i \in 1..Len(rules) :
            i \in LoggedRules <=>
                \A f \in DOMAIN rules[i].condition \cap {"intent", "priority"} :
                    rules[i].condition[f] = analysis[f]

\* C9 witness: a rule matched on its priority although the other field it
\* names differs, while another rule did not match.
C9_Witness ==
    /\ Evaluated
    /\ \E i \in LoggedRules :
         /\ "priority" \in DOMAIN rules[i].condition
         /\ "suggested_response" \in DOMAIN rules[i].condition
         /\ rules[i].condition.suggested_response # analysis.suggested_response
    /\ \E i \in 1..Len(rules) : i \notin LoggedRules

\* C10: with rate limiting enabled, check_rate_limit() returns true iff
\* fewer than max_emails_per_hour recorded timestamps lie in the trailing
\* hour.
C10_AllowedIffBelowLimit ==
    (call.fn = "check_rate_limit" /\ config.rate_limit.enabled)
    => (call.ret = "true"
          <=> InLastHour(LogTimes([sent_log |-> call.pre_log]), call.at)
                < config.rate_limit.max_emails_per_hour)

\* C10 witness: check_rate_limit() returned false with the limiter enabled,
\* after dropping a timestamp older than one hour from the log it counted.
C10_Witness ==
    /\ call.fn = "check_rate_limit" /\ config.rate_limit.enabled
    /\ call.ret = "false"
    /\ Len(state.sent_log) < Len(call.pre_log)

-----------------------------------------------------------------------------
\* The entries of the log l that are kept at time t: those later than t
\* minus one hour, in their order (built from the front of l).
RECURSIVE KeptAt(_, _)
KeptAt(l, t) ==
    IF l = << >> THEN << >>
    ELSE IF Head(l).iso + TicksPerHour > t
    THEN << Head(l) >> \o KeptAt(Tail(l), t)
    ELSE KeptAt(Tail(l), t)

\* C11 as stated: with rate limiting enabled, check_rate_limit() removes from
\* the send log exactly the timestamps older than now minus one hour, keeping
\* all others in their order, saves the pruned log although nothing was
\* recorded, and counts only the remaining timestamps.
C11_RemovesOlderOnly ==
    (call.fn = "check_rate_limit" /\ config.rate_limit.enabled
        /\ call.ret # "raise")
    => /\ state.sent_log =
             SelectSeq(call.pre_log,
                       LAMBDA ts : ~(ts.iso < call.at - TicksPerHour))
       /\ call.save # "none"
       /\ (call.save = "written" => file = json_dump(state))
       /\ (call.ret = "true"
             <=> Len(state.sent_log) < config.rate_limit.max_emails_per_hour)

\* C11 amended: with rate limiting enabled, check_rate_limit() removes from
\* the send log exactly the timestamps not later than now minus one hour (one
\* that is exactly one hour old goes too), keeping all others in their order,
\* calls _save_state although nothing was recorded, so that the file, when
\* the write goes through, holds the pruned log, and answers from the number
\* of timestamps that remain.
C11_PrunesSavesCounts ==
    (call.fn = "check_rate_limit" /\ config.rate_limit.enabled
        /\ call.ret # "raise")
    => /\ state.sent_log = KeptAt(call.pre_log, call.at)
       /\ call.save # "none"
       /\ (call.save = "written" => file = json_dump(state))
       /\ (call.ret = "true"
             <=> Len(state.sent_log) < config.rate_limit.max_emails_per_hour)

\* C11 witness: a check dropped a timestamp exactly one hour old, kept a
\* later one and wrote the pruned log to the file.
C11_Witness ==
    /\ call.fn = "check_rate_limit" /\ config.rate_limit.enabled
    /\ Len(call.pre_log) = 2
    /\ call.pre_log[1].iso = call.at - TicksPerHour
    /\ Len(state.sent_log) = 1
    /\ call.save = "written"
    /\ file = json_dump(state)

-----------------------------------------------------------------------------
\* The log holds only timestamps of the hour that ends at time t.
WithinTrailingHour(log, t) ==
    \A i \in 1..Len(log) : log[i].iso > t - TicksPerHour /\ log[i].iso <= t

\* C12 as stated: after any call to check_rate_limit() or record_action(),
\* in any order and with time advancing between the calls, the send log holds
\* only timestamps within the trailing hour.
C12_LogWithinHourAfterAnyCall ==
    (call.fn \in {"check_rate_limit", "record_action"} /\ call.ret # "raise")
    => WithinTrailingHour(state.sent_log, call.at)

\* C12 amended: after a call to check_rate_limit() with rate limiting
\* enabled the send log holds only timestamps within the trailing hour,
\* whatever calls came before; record_action() only appends the current time
\* to the log as it was, and a check with rate limiting disabled leaves the
\* log as it was.
C12_LogWithinHourAfterCheck ==
    /\ (call.fn = "check_rate_limit" /\ config.rate_limit.enabled
            /\ call.ret # "raise")
       => WithinTrailingHour(state.sent_log, call.at)
    /\ (call.fn = "check_rate_limit" /\ ~config.rate_limit.enabled)
       => state.sent_log = call.pre_log
    /\ call.fn = "record_action"
       => state.sent_log = Append(call.pre_log, isoformat(call.at))

\* C12 witness: time went on after a record_action(), and the next check
\* with rate limiting enabled dropped a timestamp and left a later one.
C12_Witness ==
    /\ call.fn = "check_rate_limit" /\ config.rate_limit.enabled
    /\ call.at > 0
    /\ ~WithinTrailingHour(call.pre_log, call.at)
    /\ state.sent_log # << >>
    /\ WithinTrailingHour(state.sent_log, call.at)

-----------------------------------------------------------------------------
\* The step of main that handles the reply-type action at act_idx.
ReplyStep ==
    /\ pc = "action"
    /\ rule_actions[act_idx].type \in {"draft_reply", "reply"}
    /\ pc' \notin {"action", "stopped"} \/ act_idx' # act_idx

\* C13: when validate_action returns 'manual' for a reply-type action, the
\* resolver drops it: no transport call is made, executed_actions is left
\* as it was, record_action() is not called (the send log does not grow) and
\* the loop moves to the next action, or to the fallback step after the last.
C13_ManualIsDropped ==
    [][ (ReplyStep /\ safe_mode' = "manual")
        => /\ calls' = calls
           /\ executed_actions' = executed_actions
           /\ Len(state'.sent_log) <= Len(state.sent_log)
           /\ act_idx' = act_idx + 1
           /\ pc' = AfterAction(rule_actions, act_idx) ]_vars

\* C13 witness: in a live run the first reply of an email was dropped as
\* manual and the loop stands at the email's second action.
C13_Witness ==
    /\ ~dry_run /\ pc = "action" /\ act_idx = 2
    /\ rule_actions[1].type = "reply"
    /\ analysis.suggested_response # ""
    /\ call.ret = "manual" /\ safe_mode = "manual"
    /\ executed_actions = << >> /\ calls = << >>

-----------------------------------------------------------------------------
\* The entry of executed_actions the fallback step adds.
ReviewEntry == "LABEL_" \o config.human_in_the_loop_label
\* Entries of executed_actions that stand for a reply, executed or simulated.
ReplyEntries == {"send", "draft", "DRY_RUN_send", "DRY_RUN_draft"}
\* The email being processed has candidate actions, all of reply type.
OnlyReplyActions ==
    /\ rule_actions # << >>
    /\ \A i \in 1..Len(rule_actions) :
         rule_actions[i].type \in {"draft_reply", "reply"}
\* No reply of the current email was sent, drafted or simulated.
NoReplyExecuted ==
    /\ \A i \in 1..Len(calls) : calls[i].op # "send_email"
    /\ \A i \in 1..Len(executed_actions) :
         executed_actions[i] \notin ReplyEntries
BelowDraft == analysis.confidence_score < config.min_confidence_for_draft
BelowBoth ==
    /\ analysis.confidence_score < config.min_confidence_for_draft
    /\ analysis.confidence_score < config.min_confidence_for_auto_action

-----------------------------------------------------------------------------
-----------------------------------------------------------------------------
-----------------------------------------------------------------------------
\* The values of the label actions of the rules, and the entries of
\* executed_actions that carry the marker of a simulated action.
LabelValues ==
    UNION { { rules[i].actions[j].value : j \in 1..Len(rules[i].actions) } :
              i \in 1..Len(rules) }
    \cup {config.human_in_the_loop_label}
SimulatedEntries ==
    {"DRY_RUN_send", "DRY_RUN_draft", "DRY_RUN_ARCHIVE"}
    \cup { "DRY_RUN_LABEL_" \o v : v \in LabelValues }

\* C17: under dry-run every entry of executed_actions, those of reply, label,
\* archive and fallback review-label actions alike, carries the simulated
\* marker.
C17_DryRunEntriesMarked ==
    dry_run
    => \A i \in 1..Len(executed_actions) :
         executed_actions[i] \in SimulatedEntries

\* The step of main that handles the label or archive action at act_idx.
LabelOrArchiveStep ==
    /\ pc = "action"
    /\ rule_actions[act_idx].type \in {"label", "archive"}
    /\ pc' # "stopped"

\* C18: a label or archive action is handled without the safety gate, at
\* every confidence and in every state of the rate limiter: under dry-run it
\* is recorded as simulated, otherwise add_label / archive_email is called
\* for it; the step does not call the SafetyLayer, does not read the clock,
\* and leaves the send log and its file as they were.
C18_LabelAndArchiveNotGated ==
    [][ LabelOrArchiveStep
        => /\ state' = state /\ file' = file /\ now' = now
           /\ call' = call /\ safe_mode' = safe_mode
           /\ LET a == rule_actions[act_idx]
              IN  IF dry_run
                  THEN /\ calls' = calls
                       /\ executed_actions' =
                             Append(executed_actions,
                                    IF a.type = "label"
                                    THEN "DRY_RUN_LABEL_" \o a.value
                                    ELSE "DRY_RUN_ARCHIVE")
                  ELSE /\ Len(calls') = Len(calls) + 1
                       /\ calls'[Len(calls')].op =
                             (IF a.type = "label" THEN "add_label"
                              ELSE "archive_email")
                       /\ a.type = "label" => calls'[Len(calls')].arg = a.value
         ]_vars

\* C18 witness: in a live run, with the rate limit reached and the
\* confidence below both thresholds, a label was applied and the email
\* archived.
C18_Witness ==
    /\ ~dry_run /\ BelowBoth
    /\ config.rate_limit.enabled
    /\ InLastHour(LogTimes(state), now) >= config.rate_limit.max_emails_per_hour
    /\ Len(calls) = 2
    /\ calls[1].op = "add_label" /\ calls[1].outcome = "ok"
    /\ calls[2].op = "archive_email" /\ calls[2].outcome = "ok"
    /\ executed_actions = << "LABEL_Newsletters", "ARCHIVE" >>

-----------------------------------------------------------------------------
\* C19: when a single transport call for an action fails (send_email returns
\* False, add_label or archive_email logs an error), the action does not
\* appear in executed_actions and the loop goes on to the next action or to
\* the end of the email.
C19_FailedCallNotRecorded ==
    [][ (Len(calls') = Len(calls) + 1 /\ calls'[Len(calls')].outcome = "fail")
        => /\ executed_actions' = executed_actions
           /\ pc' \in {"action", "fallback", "audit"} ]_vars

\* C20: for every email whose processing completes exactly one audit record
\* is emitted, by the step that follows the email's actions and fallback; it
\* carries the email's final executed_actions; no other step emits a record;
\* the next email is taken up only after the record of the one before, and
\* emails are completed one at a time in fetch order.
C20_OneAuditRecordPerEmail ==
    [][ /\ (pc = "audit" /\ pc' # "stopped")
           => /\ audit = << >>
              /\ Len(audit') = 1
              /\ audit'[1].email_id = email_idx + 1
              /\ audit'[1].actions = executed_actions
              /\ audit'[1].status = "Completed"
              /\ email_idx' = email_idx + 1
              /\ pc' = "email"
        /\ pc # "audit"
           => /\ audit' = audit \/ audit' = << >>
              /\ email_idx' = email_idx
        /\ (pc = "email" /\ pc' \in {"action", "fallback"} /\ email_idx > 0)
           => /\ Len(audit) = 1
              /\ audit[1].email_id = email_idx
        /\ pc' \in {"action", "send", "record", "fallback", "audit"}
           => audit' = << >>
      ]_vars

\* C20 witness: the second email of a batch is being processed, its own
\* record not yet emitted, after the first was completed and recorded.
C20_Witness ==
    /\ email_idx = 1 /\ pc = "fallback"
    /\ executed_actions # << >>
    /\ audit = << >>

-----------------------------------------------------------------------------
\* C21: when the persisted state is missing, unparseable or not a
\* well-formed list of ISO-8601 timestamps, the rate limiter behaves as
\* from an empty send log: every later check_rate_limit(), validate_action()
\* and record_action() completes without raising, and a check of a log that
\* holds no timestamp allows a send.
C21_CorruptStateFailsOpen ==
    call.fn \in {"check_rate_limit", "validate_action", "record_action"}
    => /\ call.ret # "raise"
       /\ (call.fn = "check_rate_limit"
             /\ \A i \in 1..Len(call.pre_log) : ~IsIsoFormat(call.pre_log[i]))
          => call.ret = "true"

-----------------------------------------------------------------------------
\* The last transport call of the current email was a reply that the
\* transport reports as sent in mode 'send'.
LastCallSent(cs) ==
    /\ cs # << >>
    /\ cs[Len(cs)].op = "send_email"
    /\ cs[Len(cs)].arg = "send"
    /\ cs[Len(cs)].outcome = "ok"

\* C22: the send log grows only by record_action() after a live reply that
\* the transport reported as sent in mode 'send', and then by exactly the one
\* timestamp of that moment; such a send is always followed by
\* record_action(); no other step (the gate with check_rate_limit, a draft,
\* a failed send, a label or archive action, the fallback label, the audit)
\* makes the log longer.
C22_OnlySendsConsumeSlots ==
    [][ /\ Len(state'.sent_log) > Len(state.sent_log)
           => /\ pc = "record" /\ ~dry_run
              /\ LastCallSent(calls)
              /\ state'.sent_log = Append(state.sent_log, isoformat(now'))
        /\ (pc = "send" /\ pc' # "stopped")
           => (pc' = "record" <=> LastCallSent(calls'))
        /\ (pc = "record" /\ pc' # "stopped")
           => Len(state'.sent_log) = Len(state.sent_log) + 1
      ]_vars

\* C22 witness: a live reply was sent and its timestamp recorded as the last
\* entry of the send log.
C22_Witness ==
    /\ ~dry_run /\ pc \in {"action", "fallback"}
    /\ LastCallSent(calls)
    /\ state.sent_log # << >>
    /\ state.sent_log[Len(state.sent_log)] = isoformat(now)
    /\ executed_actions[Len(executed_actions)] = "send"

-----------------------------------------------------------------------------
\* C23: in a live run, a reply-type action that the gate let through as
\* 'send' or 'draft' while the classification has an empty suggested
\* response is skipped: no transport call, executed_actions as it was, no
\* record_action() (the send log does not grow), and the loop goes on with
\* the email's next action, or to the fallback after the last.
C23_EmptyResponseSkipped ==
    [][ (ReplyStep /\ ~dry_run /\ analysis.suggested_response = ""
            /\ safe_mode' \in {"send", "draft"})
        => /\ calls' = calls
           /\ executed_actions' = executed_actions
           /\ Len(state'.sent_log) <= Len(state.sent_log)
           /\ act_idx' = act_idx + 1
           /\ pc' = AfterAction(rule_actions, act_idx) ]_vars

\* C23 witness: in a live run the gate returned 'send' for the first reply of
\* an email without suggested response, and the loop stands at the second
\* action with nothing sent and nothing recorded.
C23_Witness ==
    /\ ~dry_run /\ pc = "action" /\ act_idx = 2
    /\ rule_actions[1].type = "reply"
    /\ analysis.suggested_response = ""
    /\ call.fn = "validate_action" /\ call.ret = "send"
    /\ executed_actions = << >> /\ calls = << >>

-----------------------------------------------------------------------------
\* C24: under dry-run no step of the run changes the in-memory send log,
\* changes the persisted state file, or calls _save_state to rewrite it.
C24_DryRunLeavesLimiterUntouched ==
    [][ dry_run
        => /\ state' = state
           /\ file' = file
           /\ call'.save = "none" ]_vars

-----------------------------------------------------------------------------
\* A simulated entry of the dry run corresponds to the live entry of the
\* same kind and mode: the live entry behind the DRY_RUN_ marker, or, for
\* the review label that is recorded without the marker, the entry itself.
Corresponds(dry_list, live_list) ==
    /\ Len(dry_list) = Len(live_list)
    /\ \A i \in 1..Len(dry_list) :
         dry_list[i] \in {"DRY_RUN_" \o live_list[i], live_list[i]}

DryRunPredictsLive ==
    \A i \in 1..Len(twin.batch) : Corresponds(twin.dry[i], twin.live[i])

\* C25 (as stated): for the same batch, classifications, rules,
\* configuration and initial limiter state, the dry run's list of simulated
\* actions for each email corresponds one to one, in kind, mode and order,
\* to the list the live run executes with a transport that always succeeds.
C25_DryRunPredictsLive ==
    pc = "twin" => DryRunPredictsLive

\* Replies the live run has sent, and those of the window it started with.
RECURSIVE SendsOf(_)
SendsOf(lists) ==
    IF lists = << >> THEN 0
    ELSE Len(SelectSeq(Head(lists), LAMBDA e : e = "send")) + SendsOf(Tail(lists))

BelowLimitThroughout ==
    \/ ~config.rate_limit.enabled
    \/ InLastHour(LogTimes(state), now) + SendsOf(twin.live)
          < config.rate_limit.max_emails_per_hour

\* C25 (amended): the dry run's lists correspond one to one to the live
\* run's when every classification of the batch carries a suggested
\* response and the replies in the rate window, those the live run sends
\* included, stay below max_emails_per_hour (or rate limiting is off).
C25_DryRunPredictsUnlimitedLive ==
    ( /\ pc = "twin"
      /\ \A i \in 1..Len(twin.batch) : twin.batch[i].suggested_response # ""
      /\ BelowLimitThroughout )
    => DryRunPredictsLive

\* C25 witness: a batch of two under an enabled limiter, the live run having
\* sent a reply the dry run simulated, and drafted another.
C25_Witness ==
    /\ pc = "twin"
    /\ Len(twin.batch) = 2
    /\ \A i \in 1..2 : twin.batch[i].suggested_response # ""
    /\ config.rate_limit.enabled
    /\ BelowLimitThroughout
    /\ twin.live[1] = <<"send">>
    /\ twin.dry[1] = <<"DRY_RUN_send">>
    /\ twin.live[2] = <<"draft">>
    /\ twin.dry[2] = <<"DRY_RUN_draft">>

-----------------------------------------------------------------------------
\* Transport calls that succeeded for the current email and are in no audit
\* record yet (calls is emptied when the email's record is logged).
UnauditedExecuted == { i \in 1..Len(calls) : calls[i].outcome = "ok" }

\* C26: no run ends, whether it runs out of emails, aborts on a propagated
\* transport error or is interrupted, with an action executed against the
\* mail transport that is reported in no audit record.
C26_ExecutedActionsAudited ==
    pc \in {"done", "fatal", "stopped"} => UnauditedExecuted = {}

=============================================================================
